---- MODULE Spec2Model ----
(***************************************************************************)
(* Model of the interrupt-driven I2C (TWI) master driver of                *)
(* avr_hal/src/i2c/i2c.c: the request functions i2c_write_register and     *)
(* i2c_read_register (foreground), the interrupt handler ISR(TWI_vect),    *)
(* and the TWI peripheral as far as the driver observes it (TWCR, TWDR,    *)
(* TWSR and the TWINT flag).                                               *)
(***************************************************************************)
EXTENDS Integers, Sequences, FiniteSets, TLC

(***************************************************************************)
(* Bounds of the model.                                                    *)
(***************************************************************************)
MaxLen == 2          \* request lengths are 0..MaxLen
MaxWrites == 2       \* the count of result-slot writes saturates here

Max(a, b) == IF a >= b THEN a ELSE b

UInt8(n) == n % 256

(***************************************************************************)
(* TWI status codes (TW_STATUS values, <util/twi.h>).                      *)
(***************************************************************************)
TW_BUS_ERROR == 0
TW_START == 8
TW_REP_START == 16
TW_MT_SLA_ACK == 24
TW_MT_SLA_NACK == 32
TW_MT_DATA_ACK == 40
TW_MT_DATA_NACK == 48
TW_MR_SLA_ACK == 64
TW_MR_DATA_ACK == 80
TW_MR_DATA_NACK == 88
TW_NO_INFO == 248

\* The status codes the peripheral reports in the model: the six the handler
\* tests for, the bus error and the not-acknowledged codes.  The handler
\* treats every other code like the latter four.
Statuses ==
    { TW_BUS_ERROR, TW_START, TW_REP_START, TW_MT_SLA_ACK, TW_MT_SLA_NACK,
      TW_MT_DATA_ACK, TW_MT_DATA_NACK, TW_MR_SLA_ACK, TW_MR_DATA_ACK,
      TW_MR_DATA_NACK }

I2C_READ_BIT == 1

\* x | I2C_READ_BIT on an 8-bit value
OrReadBit(x) == IF x % 2 = 1 THEN x ELSE x + I2C_READ_BIT

(***************************************************************************)
(* Values of the driver's enumerations.                                    *)
(***************************************************************************)
i2c_operation_t == {"read_op", "read_register_op", "write_register_op"}

i2c_state_t ==
    {"idle", "start", "repeated_start", "send_sla_w", "write_register",
     "write_data", "read_data"}

i2c_op_result_t ==
    {"i2c_operation_processing", "i2c_operation_ok", "i2c_operation_start_error",
     "i2c_operation_sla_error", "i2c_operation_write_error",
     "i2c_operation_repeated_start_error", "i2c_operation_read_error"}

i2c_request_t == {"i2c_request_ok", "i2c_request_busy"}

NULL == "NULL"

(***************************************************************************)
(* The callers' memory.  A buffer pointer is an address into ram, a result *)
(* pointer names one of the callers' result variables.                     *)
(***************************************************************************)
Addresses == {80, 81}
Registers == {0, 1}
Lengths == 0 .. MaxLen
DataBytes == {0, 1}
BufPtrs == {0}
ResultPtrs == {"r1"}

\* ram holds every cell the driver can touch through a buffer pointer: the
\* buffer itself and the cells behind it that an index >= length reaches.
MaxOf(S) == CHOOSE x \in S : \A y \in S : y <= x

RamSize == Max(MaxLen, MaxOf(Registers) + 1)
RamCells == 0 .. (RamSize - 1)

VARIABLES
    self,        \* static struct i2c_controller_t self
    TWCR,        \* control register: the set of bits last written (TWINT apart)
    TWINT,       \* the TWINT flag: a bus event awaits its interrupt
    TWDR,        \* data register
    TWSR,        \* status register, read as TW_STATUS
    ram,         \* callers' buffer memory
    result,      \* callers' result variables
    ret,         \* return value of the request call made in the last step
    bus,         \* the driver's bus actions since the last accepted request
    rx,          \* data bytes the peripheral received since then, with ACK/NACK
    writes,      \* handler's writes to the result slot since then (saturating)
    pc           \* the foreground: the request function it is in, and the
                 \* statement it executes next

vars == <<self, TWCR, TWINT, TWDR, TWSR, ram, result, ret, bus, rx, writes, pc>>

(***************************************************************************)
(* Bus actions of the driver: each is one write of TWCR (and TWDR).        *)
(* Writing TWINT as one clears the flag and lets the peripheral go on;      *)
(* while the flag is clear the status register reads TW_NO_INFO.           *)
(***************************************************************************)
i2c_send_start == [fn |-> "i2c_send_start", TWCR |-> {"TWEN", "TWSTA", "TWIE"}, TWDR |-> -1]

i2c_write_byte(byte) == [fn |-> "i2c_write_byte", TWCR |-> {"TWEN", "TWIE"}, TWDR |-> byte]

i2c_send_ack == [fn |-> "i2c_send_ack", TWCR |-> {"TWEA", "TWIE"}, TWDR |-> -1]

i2c_send_nack == [fn |-> "i2c_send_nack", TWCR |-> {"TWIE"}, TWDR |-> -1]

i2c_restart == [fn |-> "i2c_restart", TWCR |-> {"TWEN", "TWSTA", "TWIE"}, TWDR |-> -1]

i2c_send_stop == [fn |-> "i2c_send_stop", TWCR |-> {"TWEN", "TWSTO"}, TWDR |-> -1]

\* i2c_read_data: the value of TWDR
i2c_read_data == TWDR

\* The registers after the bus actions acts, done in order.
Last(s) == s[Len(s)]

DataAfter(acts, twdr) ==
    LET w == SelectSeq(acts, LAMBDA a : a.TWDR >= 0)
    IN  IF w = <<>> THEN twdr ELSE Last(w).TWDR

Drive(acts) ==
    /\ bus' = bus \o acts
    /\ IF acts = <<>>
         THEN UNCHANGED <<TWCR, TWINT, TWDR, TWSR>>
         ELSE /\ TWCR' = Last(acts).TWCR
              /\ TWINT' = FALSE
              /\ TWSR' = TW_NO_INFO
              /\ TWDR' = DataAfter(acts, TWDR)

(***************************************************************************)
(* The foreground.  Outside the request functions it is at AtMain; inside  *)
(* the branch of an accepted request it is at one of Statements.           *)
(***************************************************************************)
AtMain == [fn |-> "main", at |-> "main"]

RequestFns == {"i2c_write_register", "i2c_read_register"}

\* the statements of the branch of an accepted request, with the START
\* issued before the stores
Statements_start_first ==
    <<"send_start", "slave_address", "data_register", "buffer", "buffer_length",
      "operation", "operation_result", "processing", "state", "handled_bytes",
      "return">>

\* the statements of the branch of an accepted request, in order
Statements ==
    <<"slave_address", "data_register", "buffer", "buffer_length",
      "operation", "operation_result", "processing", "state", "handled_bytes",
      "send_start", "return">>

Labels == {Statements[i] : i \in 1 .. Len(Statements)}

(***************************************************************************)
(* i2c_init: the state the program starts in.                              *)
(***************************************************************************)
i2c_init ==
    [ operation |-> "read_op",
      slave_address |-> 0,
      data_register |-> 0,
      state |-> "idle",
      buffer |-> NULL,
      buffer_length |-> 0,
      handled_bytes |-> 0,
      operation_result |-> NULL,
      operation_status_code |-> 0 ]

Init ==
    /\ self = i2c_init
    /\ TWCR = {"TWEN"}
    /\ TWINT = FALSE
    /\ TWDR = 255
    /\ TWSR = TW_NO_INFO
    /\ ram \in [RamCells -> DataBytes]
    /\ result \in [ResultPtrs -> i2c_op_result_t]
    /\ ret = "none"
    /\ bus = <<>>
    /\ rx = <<>>
    /\ writes = 0
    /\ pc = AtMain

(***************************************************************************)
(* Request API.  Both functions run in the foreground.  While state is     *)
(* idle TWIE is clear (after i2c_init and after every STOP), so the        *)
(* handler cannot run before the closing i2c_send_start.                   *)
(***************************************************************************)
\* i2c_write_register without the test of the state
i2c_write_register_unguarded(address, reg, buffer, length, res) ==
    /\ self' = [ self EXCEPT
                   !.slave_address = address,
                   !.data_register = reg,
                   !.buffer = buffer,
                   !.buffer_length = length,
                   !.operation = "write_register_op",
                   !.operation_result = res,
                   !.state = "start",
                   !.handled_bytes = 0 ]
    /\ result' = [result EXCEPT ![res] = "i2c_operation_processing"]
    /\ TWCR' = i2c_send_start.TWCR
    /\ TWINT' = FALSE
    /\ TWSR' = TW_NO_INFO
    /\ bus' = <<i2c_send_start>>
    /\ rx' = <<>>
    /\ writes' = 0
    /\ ret' = "i2c_request_ok"
    /\ UNCHANGED <<TWDR, ram, pc>>

i2c_write_register(address, reg, buffer, length, res) ==
    IF self.state = "idle"
      THEN /\ self' = [ self EXCEPT
                          !.slave_address = address,
                          !.data_register = reg,
                          !.buffer = buffer,
                          !.buffer_length = length,
                          !.operation = "write_register_op",
                          !.operation_result = res,
                          !.state = "start",
                          !.handled_bytes = 0 ]
           /\ result' = [result EXCEPT ![res] = "i2c_operation_processing"]
           /\ TWCR' = i2c_send_start.TWCR
           /\ TWINT' = FALSE
           /\ TWSR' = TW_NO_INFO
           /\ bus' = <<i2c_send_start>>
           /\ rx' = <<>>
           /\ writes' = 0
           /\ ret' = "i2c_request_ok"
           /\ UNCHANGED <<TWDR, ram, pc>>
      ELSE /\ ret' = "i2c_request_busy"
           /\ UNCHANGED <<self, TWCR, TWINT, TWDR, TWSR, ram, result, bus, rx, writes, pc>>

\* i2c_read_register without the reset of handled_bytes
i2c_read_register_stale_count(address, read_register, buffer, length, res) ==
    IF self.state = "idle"
      THEN /\ self' = [ self EXCEPT
                          !.slave_address = address,
                          !.data_register = read_register,
                          !.buffer = buffer,
                          !.buffer_length = length,
                          !.operation = "read_register_op",
                          !.operation_result = res,
                          !.state = "start" ]
           /\ result' = [result EXCEPT ![res] = "i2c_operation_processing"]
           /\ TWCR' = i2c_send_start.TWCR
           /\ TWINT' = FALSE
           /\ TWSR' = TW_NO_INFO
           /\ bus' = <<i2c_send_start>>
           /\ rx' = <<>>
           /\ writes' = 0
           /\ ret' = "i2c_request_ok"
           /\ UNCHANGED <<TWDR, ram, pc>>
      ELSE /\ ret' = "i2c_request_busy"
           /\ UNCHANGED <<self, TWCR, TWINT, TWDR, TWSR, ram, result, bus, rx, writes, pc>>

i2c_read_register(address, read_register, buffer, length, res) ==
    IF self.state = "idle"
      THEN /\ self' = [ self EXCEPT
                          !.slave_address = address,
                          !.data_register = read_register,
                          !.buffer = buffer,
                          !.buffer_length = length,
                          !.operation = "read_register_op",
                          !.operation_result = res,
                          !.state = "start",
                          !.handled_bytes = 0 ]
           /\ result' = [result EXCEPT ![res] = "i2c_operation_processing"]
           /\ TWCR' = i2c_send_start.TWCR
           /\ TWINT' = FALSE
           /\ TWSR' = TW_NO_INFO
           /\ bus' = <<i2c_send_start>>
           /\ rx' = <<>>
           /\ writes' = 0
           /\ ret' = "i2c_request_ok"
           /\ UNCHANGED <<TWDR, ram, pc>>
      ELSE /\ ret' = "i2c_request_busy"
           /\ UNCHANGED <<self, TWCR, TWINT, TWDR, TWSR, ram, result, bus, rx, writes, pc>>

\* i2c_get_error_code: the value a call returns in the current state
i2c_get_error_code == self.operation_status_code

(***************************************************************************)
(* ISR(TWI_vect).  Handler gives what one run of the switch does to the    *)
(* context s, with TW_STATUS = status, TWDR = twdr and buffer memory mem:  *)
(* the context and memory after it, the value stored through               *)
(* operation_result ("none": no store), the bus actions done inside the    *)
(* switch, and whether the run leaves the switch by break and so ends in   *)
(* i2c_send_stop (stop) or returns before it.                              *)
(***************************************************************************)
Outcome(s, mem, res, acts, stop) ==
    [self |-> s, ram |-> mem, res |-> res, acts |-> acts, stop |-> stop]

\* self.buffer[i]
BufferAt(s, mem, i) == mem[s.buffer + i]

\* the error branches without the store of TW_STATUS
Fail_status_not_stored(s, mem, res, status, stop) ==
    Outcome(s, mem, res, <<>>, stop)

Fail(s, mem, res, status, stop) ==
    Outcome([s EXCEPT !.operation_status_code = status], mem, res, <<>>, stop)

\* the indexes i of the accesses self.buffer[i] that a run of the handler makes
BufferIndexes(s, status) ==
    CASE s.state = "send_sla_w" /\ status = TW_MT_SLA_ACK -> {s.data_register}
      [] /\ s.state = "write_register"
         /\ status = TW_MT_DATA_ACK
         /\ s.operation = "write_register_op" -> {s.handled_bytes}
      [] /\ s.state = "write_data"
         /\ status = TW_MT_DATA_ACK
         /\ s.handled_bytes < s.buffer_length -> {s.handled_bytes}
      [] /\ s.state = "read_data"
         /\ status \in {TW_MR_SLA_ACK, TW_MR_DATA_ACK} -> {s.handled_bytes}
      [] OTHER -> {}

\* Variants of the handler with one slip each: "copied_error" reports the
\* read error for a failed repeated START, "fallthrough" goes from send_sla_w
\* straight to write_data, "early_store" stores TWDR in the buffer already
\* when the repeated START completes.
Handler_variant(s, status, twdr, mem, v) ==
    CASE s.state = "start" ->
           IF status = TW_START
             THEN Outcome([s EXCEPT !.state = "send_sla_w"], mem, "none",
                          <<i2c_write_byte(s.slave_address)>>, FALSE)
             \* Stop shall not be sent: return, not break
             ELSE Fail(s, mem, "i2c_operation_start_error", status, FALSE)
      [] s.state = "send_sla_w" ->
           IF status = TW_MT_SLA_ACK
             THEN Outcome([s EXCEPT !.state = IF v = "fallthrough" THEN "write_data"
                                                                     ELSE "write_register"],
                          mem, "none",
                          <<i2c_write_byte(BufferAt(s, mem, s.data_register))>>, FALSE)
             ELSE Fail(s, mem, "i2c_operation_sla_error", status, TRUE)
      [] s.state = "write_register" ->
           IF status = TW_MT_DATA_ACK
             THEN IF s.operation = "write_register_op"
                    THEN Outcome([s EXCEPT !.state = "write_data",
                                           !.handled_bytes = UInt8(@ + 1)],
                                 mem, "none",
                                 <<i2c_write_byte(BufferAt(s, mem, s.handled_bytes))>>,
                                 FALSE)
                    ELSE Outcome([s EXCEPT !.state = "repeated_start"], mem, "none",
                                 <<i2c_restart>>, FALSE)
             ELSE Fail(s, mem, "i2c_operation_write_error", status, TRUE)
      [] s.state = "write_data" ->
           IF status = TW_MT_DATA_ACK
             THEN IF s.handled_bytes < s.buffer_length
                    THEN Outcome([s EXCEPT !.handled_bytes = UInt8(@ + 1)], mem, "none",
                                 <<i2c_write_byte(BufferAt(s, mem, s.handled_bytes))>>,
                                 FALSE)
                    ELSE Outcome(s, mem, "i2c_operation_ok", <<>>, TRUE)
             ELSE Fail(s, mem, "i2c_operation_write_error", status, TRUE)
      [] s.state = "repeated_start" ->
           IF status = TW_REP_START
             THEN Outcome([s EXCEPT !.state = "read_data"],
                          IF v = "early_store"
                            THEN [mem EXCEPT ![s.buffer + s.handled_bytes] = twdr]
                            ELSE mem,
                          "none",
                          <<i2c_write_byte(OrReadBit(s.slave_address))>>, FALSE)
             ELSE Fail(s, mem,
                       IF v = "copied_error" THEN "i2c_operation_read_error"
                                             ELSE "i2c_operation_repeated_start_error",
                       status, TRUE)
      [] s.state = "read_data" ->
           IF status = TW_MR_SLA_ACK \/ status = TW_MR_DATA_ACK
             THEN LET stored == [mem EXCEPT ![s.buffer + s.handled_bytes] = twdr]
                      t == [s EXCEPT !.handled_bytes = UInt8(@ + 1)]
                  IN  IF t.handled_bytes < t.buffer_length
                        THEN Outcome(t, stored, "none", <<i2c_send_ack>>, FALSE)
                        ELSE Outcome(t, stored, "i2c_operation_ok", <<i2c_send_nack>>, TRUE)
             ELSE Fail(s, mem, "i2c_operation_read_error", status, TRUE)
      \* no case for idle: the switch does nothing
      [] OTHER -> Outcome(s, mem, "none", <<>>, TRUE)

Handler_copied_error(s, status, twdr, mem) ==
    Handler_variant(s, status, twdr, mem, "copied_error")

Handler_fallthrough(s, status, twdr, mem) ==
    Handler_variant(s, status, twdr, mem, "fallthrough")

Handler_early_store(s, status, twdr, mem) ==
    Handler_variant(s, status, twdr, mem, "early_store")

Handler(s, status, twdr, mem) ==
    CASE s.state = "start" ->
           IF status = TW_START
             THEN Outcome([s EXCEPT !.state = "send_sla_w"], mem, "none",
                          <<i2c_write_byte(s.slave_address)>>, FALSE)
             \* Stop shall not be sent: return, not break
             ELSE Fail(s, mem, "i2c_operation_start_error", status, FALSE)
      [] s.state = "send_sla_w" ->
           IF status = TW_MT_SLA_ACK
             THEN Outcome([s EXCEPT !.state = "write_register"], mem, "none",
                          <<i2c_write_byte(BufferAt(s, mem, s.data_register))>>, FALSE)
             ELSE Fail(s, mem, "i2c_operation_sla_error", status, TRUE)
      [] s.state = "write_register" ->
           IF status = TW_MT_DATA_ACK
             THEN IF s.operation = "write_register_op"
                    THEN Outcome([s EXCEPT !.state = "write_data",
                                           !.handled_bytes = UInt8(@ + 1)],
                                 mem, "none",
                                 <<i2c_write_byte(BufferAt(s, mem, s.handled_bytes))>>,
                                 FALSE)
                    ELSE Outcome([s EXCEPT !.state = "repeated_start"], mem, "none",
                                 <<i2c_restart>>, FALSE)
             ELSE Fail(s, mem, "i2c_operation_write_error", status, TRUE)
      [] s.state = "write_data" ->
           IF status = TW_MT_DATA_ACK
             THEN IF s.handled_bytes < s.buffer_length
                    THEN Outcome([s EXCEPT !.handled_bytes = UInt8(@ + 1)], mem, "none",
                                 <<i2c_write_byte(BufferAt(s, mem, s.handled_bytes))>>,
                                 FALSE)
                    ELSE Outcome(s, mem, "i2c_operation_ok", <<>>, TRUE)
             ELSE Fail(s, mem, "i2c_operation_write_error", status, TRUE)
      [] s.state = "repeated_start" ->
           IF status = TW_REP_START
             THEN Outcome([s EXCEPT !.state = "read_data"], mem, "none",
                          <<i2c_write_byte(OrReadBit(s.slave_address))>>, FALSE)
             ELSE Fail(s, mem, "i2c_operation_repeated_start_error", status, TRUE)
      [] s.state = "read_data" ->
           IF status = TW_MR_SLA_ACK \/ status = TW_MR_DATA_ACK
             THEN LET stored == [mem EXCEPT ![s.buffer + s.handled_bytes] = twdr]
                      t == [s EXCEPT !.handled_bytes = UInt8(@ + 1)]
                  IN  IF t.handled_bytes < t.buffer_length
                        THEN Outcome(t, stored, "none", <<i2c_send_ack>>, FALSE)
                        ELSE Outcome(t, stored, "i2c_operation_ok", <<i2c_send_nack>>, TRUE)
             ELSE Fail(s, mem, "i2c_operation_read_error", status, TRUE)
      \* no case for idle: the switch does nothing
      [] OTHER -> Outcome(s, mem, "none", <<>>, TRUE)

\* the handler with the store of TW_STATUS moved behind the switch, done on
\* every run that ends in i2c_send_stop
TWI_vect_status_after_switch ==
    /\ TWINT
    /\ "TWIE" \in TWCR
    /\ LET o == Handler(self, TWSR, i2c_read_data, ram)
       IN  /\ self' = IF o.stop
                        THEN [o.self EXCEPT !.state = "idle",
                                            !.operation_status_code = TWSR]
                        ELSE o.self
           /\ ram' = o.ram
           /\ result' = IF o.res = "none"
                          THEN result
                          ELSE [result EXCEPT ![self.operation_result] = o.res]
           /\ writes' = IF o.res = "none" \/ writes = MaxWrites THEN writes ELSE writes + 1
           /\ Drive(IF o.stop THEN Append(o.acts, i2c_send_stop) ELSE o.acts)
    /\ ret' = "none"
    /\ UNCHANGED <<rx, pc>>

\* The interrupt is taken when the TWINT flag is set with TWIE enabled.  A run
\* that does not write TWCR leaves the flag set.
TWI_vect ==
    /\ TWINT
    /\ "TWIE" \in TWCR
    /\ LET o == Handler(self, TWSR, i2c_read_data, ram)
       IN  /\ self' = IF o.stop THEN [o.self EXCEPT !.state = "idle"] ELSE o.self
           /\ ram' = o.ram
           /\ result' = IF o.res = "none"
                          THEN result
                          ELSE [result EXCEPT ![self.operation_result] = o.res]
           /\ writes' = IF o.res = "none" \/ writes = MaxWrites THEN writes ELSE writes + 1
           /\ Drive(IF o.stop THEN Append(o.acts, i2c_send_stop) ELSE o.acts)
    /\ ret' = "none"
    /\ UNCHANGED <<rx, pc>>

(***************************************************************************)
(* The TWI peripheral.  After the driver has armed a bus action with the   *)
(* interrupt enabled, the peripheral completes it, sets the status and     *)
(* raises TWINT.  A STOP raises no interrupt.  When the armed action was   *)
(* i2c_send_ack or i2c_send_nack the peripheral is receiving: a data byte  *)
(* arrives in TWDR and the status tells whether it was acknowledged (TWEA) *)
(* or not, unless the event is an error.  A data-received status follows   *)
(* a reception only, the address-acknowledged status of the receive mode   *)
(* a transmitted byte only; otherwise any status may follow any action.    *)
(***************************************************************************)
Receiving == bus # <<>> /\ Last(bus).fn \in {"i2c_send_ack", "i2c_send_nack"}

Possible(status) ==
    /\ (status = TW_MR_DATA_ACK) => (Receiving /\ "TWEA" \in TWCR)
    /\ (status = TW_MR_DATA_NACK) => (Receiving /\ "TWEA" \notin TWCR)
    /\ (status = TW_MR_SLA_ACK) => ~Receiving

HwEvent ==
    /\ ~TWINT
    /\ "TWIE" \in TWCR
    /\ "TWSTO" \notin TWCR
    /\ \E status \in Statuses, d \in DataBytes :
          /\ Possible(status)
          /\ TWSR' = status
          /\ TWINT' = TRUE
          /\ IF status \in {TW_MR_DATA_ACK, TW_MR_DATA_NACK}
               THEN /\ TWDR' = d
                    /\ rx' = Append(rx, [byte |-> d, ack |-> "TWEA" \in TWCR])
               ELSE UNCHANGED <<TWDR, rx>>
    /\ ret' = "none"
    /\ UNCHANGED <<self, TWCR, ram, result, bus, writes, pc>>

WriteRequest ==
    \E a \in Addresses, r \in Registers, b \in BufPtrs, l \in Lengths, p \in ResultPtrs :
        i2c_write_register(a, r, b, l, p)

ReadRequest ==
    \E a \in Addresses, r \in Registers, b \in BufPtrs, l \in Lengths, p \in ResultPtrs :
        i2c_read_register(a, r, b, l, p)

Next ==
    \/ WriteRequest
    \/ ReadRequest
    \/ HwEvent
    \/ TWI_vect

Spec == Init /\ [][Next]_vars

\* The peripheral raises one interrupt after each armed bus action, and a
\* pending interrupt is taken.
FairSpec == Spec /\ WF_vars(HwEvent) /\ WF_vars(TWI_vect)

(***************************************************************************)
(* i2c_init called again by the application while a transaction is under   *)
(* way, e.g. to recover a driver that stays busy.  It resets five fields   *)
(* of the context and ORs TWEN into TWCR: TWIE and the other control bits  *)
(* stay as they are, so an operation of the peripheral that is under way   *)
(* still ends in an interrupt, now taken in state idle.  The               *)
(* read-modify-write writes a set TWINT bit back as one, which clears the  *)
(* flag.                                                                   *)
(***************************************************************************)
i2c_init_again ==
    /\ self.state # "idle"
    /\ self' = [self EXCEPT !.state = "idle",
                            !.slave_address = 0,
                            !.data_register = 0,
                            !.operation_result = NULL,
                            !.operation_status_code = 0]
    /\ TWCR' = TWCR \cup {"TWEN"}
    /\ TWINT' = FALSE
    /\ TWSR' = IF TWINT THEN TW_NO_INFO ELSE TWSR
    /\ ret' = "none"
    /\ UNCHANGED <<TWDR, ram, result, bus, rx, writes, pc>>

NextWithInit == Next \/ i2c_init_again

SpecWithInit == Init /\ [][NextWithInit]_vars

(***************************************************************************)
(* The request functions statement by statement.  pc.at names the          *)
(* statement the foreground executes next; each parameter is read where    *)
(* its one use is.  The handler is taken between any two statements when   *)
(* TWINT and TWIE are set.                                                 *)
(***************************************************************************)
OperationOf(f) ==
    IF f = "i2c_write_register" THEN "write_register_op" ELSE "read_register_op"

Index(at) == CHOOSE i \in 1 .. Len(Statements) : Statements[i] = at

\* control passes to the statement after pc.at; after the last, to the caller
Advance ==
    pc' = IF Index(pc.at) = Len(Statements)
            THEN AtMain
            ELSE [pc EXCEPT !.at = Statements[Index(pc.at) + 1]]

At(f, at) == pc = [fn |-> f, at |-> at]

\* if (self.state == idle), and return i2c_request_busy otherwise
TestState(f) ==
    /\ pc = AtMain
    /\ IF self.state = "idle"
         THEN /\ pc' = [fn |-> f, at |-> Statements[1]]
              /\ ret' = "none"
         ELSE /\ pc' = pc
              /\ ret' = "i2c_request_busy"
    /\ UNCHANGED <<self, TWCR, TWINT, TWDR, TWSR, ram, result, bus, rx, writes>>

\* self.<field> = <parameter or constant>
Store(f, field, value) ==
    /\ At(f, field)
    /\ self' = [self EXCEPT ![field] = value]
    /\ Advance
    /\ UNCHANGED <<TWCR, TWINT, TWDR, TWSR, ram, result, ret, bus, rx, writes>>

StoreAddress(f) == \E a \in Addresses : Store(f, "slave_address", a)

StoreRegister(f) == \E r \in Registers : Store(f, "data_register", r)

StoreBuffer(f) == \E b \in BufPtrs : Store(f, "buffer", b)

StoreLength(f) == \E l \in Lengths : Store(f, "buffer_length", l)

StoreOperation(f) == Store(f, "operation", OperationOf(f))

StoreResultPointer(f) == \E p \in ResultPtrs : Store(f, "operation_result", p)

\* *self.operation_result = i2c_operation_processing
StoreProcessing(f) ==
    /\ At(f, "processing")
    /\ result' = [result EXCEPT ![self.operation_result] = "i2c_operation_processing"]
    /\ Advance
    /\ UNCHANGED <<self, TWCR, TWINT, TWDR, TWSR, ram, ret, bus, rx, writes>>

StoreState(f) == Store(f, "state", "start")

StoreHandledBytes(f) == Store(f, "handled_bytes", 0)

\* i2c_send_start()
SendStart(f) ==
    /\ At(f, "send_start")
    /\ TWCR' = i2c_send_start.TWCR
    /\ TWINT' = FALSE
    /\ TWSR' = TW_NO_INFO
    /\ bus' = <<i2c_send_start>>
    /\ rx' = <<>>
    /\ writes' = 0
    /\ Advance
    /\ UNCHANGED <<self, TWDR, ram, result, ret>>

\* return i2c_request_ok
ReturnOk(f) ==
    /\ At(f, "return")
    /\ ret' = "i2c_request_ok"
    /\ Advance
    /\ UNCHANGED <<self, TWCR, TWINT, TWDR, TWSR, ram, result, bus, rx, writes>>

Foreground(f) ==
    \/ TestState(f)
    \/ StoreAddress(f)
    \/ StoreRegister(f)
    \/ StoreBuffer(f)
    \/ StoreLength(f)
    \/ StoreOperation(f)
    \/ StoreResultPointer(f)
    \/ StoreProcessing(f)
    \/ StoreState(f)
    \/ StoreHandledBytes(f)
    \/ SendStart(f)
    \/ ReturnOk(f)

StatementNext ==
    \/ Foreground("i2c_write_register")
    \/ Foreground("i2c_read_register")
    \/ HwEvent
    \/ TWI_vect

StatementSpec == Init /\ [][StatementNext]_vars

TypeOK ==
    /\ self.state \in i2c_state_t
    /\ self.operation \in i2c_operation_t
    /\ self.handled_bytes \in 0 .. 255
    /\ ret \in i2c_request_t \cup {"none"}
    /\ \A p \in ResultPtrs : result[p] \in i2c_op_result_t
    /\ writes \in 0 .. MaxWrites
    /\ pc \in {AtMain} \cup [fn : RequestFns, at : Labels]

(***************************************************************************)
(* Vocabulary of the properties.                                           *)
(***************************************************************************)
Busy == self.state # "idle"

RequestCall == WriteRequest \/ ReadRequest

\* this step is a call of a request function: it leaves a return value
CallReturns == ret' \in i2c_request_t

\* the handler run of this step stores a value through operation_result
HandlerStoresResult ==
    TWI_vect /\ Handler(self, TWSR, i2c_read_data, ram).res # "none"

Slot == result[self.operation_result]

\* the status each state waits for, and the error kind each state reports
Expected(state) ==
    CASE state = "start" -> {TW_START}
      [] state = "send_sla_w" -> {TW_MT_SLA_ACK}
      [] state = "write_register" -> {TW_MT_DATA_ACK}
      [] state = "write_data" -> {TW_MT_DATA_ACK}
      [] state = "repeated_start" -> {TW_REP_START}
      [] state = "read_data" -> {TW_MR_SLA_ACK, TW_MR_DATA_ACK}

ErrorKind(state) ==
    CASE state = "start" -> "i2c_operation_start_error"
      [] state = "send_sla_w" -> "i2c_operation_sla_error"
      [] state = "write_register" -> "i2c_operation_write_error"
      [] state = "write_data" -> "i2c_operation_write_error"
      [] state = "repeated_start" -> "i2c_operation_repeated_start_error"
      [] state = "read_data" -> "i2c_operation_read_error"

\* C1: the handler run that stores the outcome of a transaction stores it as
\* the only store since acceptance, and leaves the state idle.
C1_ResultOnceThenIdle ==
    [][HandlerStoresResult => (writes' = 1 /\ self'.state = "idle")]_vars

\* C2: in every non-idle state a handler run that finds a status other than
\* the expected one stores the state's error kind, issues STOP and leaves the
\* state idle.
C2_UnexpectedStatusAborts ==
    [][(TWI_vect /\ Busy /\ TWSR \notin Expected(self.state))
          => /\ result'[self.operation_result] = ErrorKind(self.state)
             /\ bus' = Append(bus, i2c_send_stop)
             /\ self'.state = "idle"]_vars

\* C3: a request made while the state is not idle returns busy and changes
\* nothing: not the context, not the buffer memory, not the result slots, and
\* it issues no bus action.
C3_BusyNoSideEffects ==
    [][(Busy /\ CallReturns)
          => /\ ret' = "i2c_request_busy"
             /\ UNCHANGED <<self, TWCR, TWINT, TWDR, TWSR, ram, result, bus, rx, writes>>]_vars

C3_Witness ==
    /\ ret = "i2c_request_busy"
    /\ Busy
    /\ Slot = "i2c_operation_processing"
    /\ Len(bus) > 1

\* C4: a request made while the state is idle returns ok; on return the context
\* holds the request, the operation is the one of the function called,
\* handled_bytes is 0, the result slot reads processing, the state is start
\* and one START has been issued.
Accepted(op, a, r, b, l, p) ==
    /\ ret' = "i2c_request_ok"
    /\ self'.operation = op
    /\ self'.slave_address = a
    /\ self'.data_register = r
    /\ self'.buffer = b
    /\ self'.buffer_length = l
    /\ self'.operation_result = p
    /\ self'.handled_bytes = 0
    /\ self'.state = "start"
    /\ result'[p] = "i2c_operation_processing"
    /\ bus' = <<i2c_send_start>>
    /\ TWCR' = {"TWEN", "TWSTA", "TWIE"}
    /\ ~TWINT'

WrittenBytes(b) ==
    LET w == SelectSeq(b, LAMBDA a : a.fn = "i2c_write_byte")
    IN  [i \in 1 .. Len(w) |-> w[i].TWDR]

\* the names of the bus actions, in order
Fns(b) == [i \in 1 .. Len(b) |-> b[i].fn]

IsArm(a) == a.fn \in {"i2c_send_ack", "i2c_send_nack"}

\* the ACK/NACK armings, and the other bus actions
Arms(b) == Fns(SelectSeq(b, IsArm))

Frame(b) == Fns(SelectSeq(b, LAMBDA a : ~IsArm(a)))

\* L - 1 times ACK, then NACK
AcksThenNack(L) ==
    [i \in 1 .. L |-> IF i < L THEN "i2c_send_ack" ELSE "i2c_send_nack"]

\* the last transaction was of kind op and ended with success
Completed(op) ==
    /\ self.state = "idle"
    /\ self.operation_result # NULL
    /\ self.operation = op
    /\ Slot = "i2c_operation_ok"

\* C5: under the fairness of FairSpec every accepted request reaches the idle
\* state with a result other than processing.
C5_EventuallyIdle ==
    Busy ~> (~Busy /\ self.operation_result # NULL /\ Slot # "i2c_operation_processing")

\* C6: a write-register transaction of length L that succeeds has sent, after
\* the address byte, the register index and then buffer[0] .. buffer[L-1],
\* and has ended with STOP.
C6_WriteSendsRegisterThenBuffer ==
    Completed("write_register_op")
       => LET sent == WrittenBytes(bus)
              L == self.buffer_length
          IN  /\ Len(sent) = L + 2
              /\ sent[2] = self.data_register
              /\ \A i \in 1 .. L : sent[i + 2] = BufferAt(self, ram, i - 1)
              /\ Last(bus) = i2c_send_stop

\* C7: a read-register transaction of length L > 0 that succeeds has armed
\* L - 1 ACKs and then one NACK, and the peripheral has received L data bytes,
\* the last of them not acknowledged and every earlier one acknowledged.
C7_AcksThenNack ==
    (Completed("read_register_op") /\ self.buffer_length > 0)
       => LET L == self.buffer_length
          IN  /\ Arms(bus) = AcksThenNack(L)
              /\ Len(rx) = L
              /\ \A i \in 1 .. L : rx[i].ack = (i < L)

\* C8: a read-register transaction of length L > 0 that succeeds leaves in
\* buffer[i] the i-th data byte received, L bytes in all, and its bus actions
\* were START, address, register index, repeated START, address, the
\* receptions, STOP.
C8_BufferHoldsReceivedBytes ==
    (Completed("read_register_op") /\ self.buffer_length > 0)
       => LET L == self.buffer_length
          IN  /\ Len(rx) = L
              /\ \A i \in 1 .. L : BufferAt(self, ram, i - 1) = rx[i].byte
              /\ Frame(bus) = << "i2c_send_start", "i2c_write_byte", "i2c_write_byte",
                                 "i2c_restart", "i2c_write_byte", "i2c_send_stop" >>

\* C9: in a transaction of length 0 no handler run stores into the buffer
\* memory, and when it succeeds the only bytes sent were the address bytes and
\* the register index, no byte was received, and it ended with STOP.
C9_ZeroLengthMovesNoData ==
    [][(TWI_vect /\ Busy /\ self.buffer_length = 0)
          => /\ ram' = ram
             /\ (self'.state = "idle" /\ result'[self.operation_result] = "i2c_operation_ok")
                   => /\ Len(WrittenBytes(bus')) =
                            (IF self.operation = "write_register_op" THEN 2 ELSE 3)
                      /\ rx' = <<>>
                      /\ Last(bus') = i2c_send_stop]_vars

\* C10: handled_bytes never exceeds buffer_length, and it decreases only in
\* the step that accepts a request, which sets it to 0.
C10_HandledBytesBounded ==
    [][/\ self'.handled_bytes >= 0
       /\ self'.handled_bytes <= self'.buffer_length
       /\ (self'.handled_bytes < self.handled_bytes)
             => (RequestCall /\ ~Busy /\ self'.handled_bytes = 0)]_vars

\* the handler run of this step stores an error through operation_result
HandlerStoresError ==
    /\ HandlerStoresResult
    /\ Handler(self, TWSR, i2c_read_data, ram).res # "i2c_operation_ok"

\* C11: after the handler run that stores an error, i2c_get_error_code returns
\* the TW_STATUS value read in that run, and the value it returns changes in
\* no other step.
C11_ErrorCodeIsStatusOfError ==
    [][/\ HandlerStoresError => (i2c_get_error_code' = TWSR)
       /\ (i2c_get_error_code' # i2c_get_error_code) => HandlerStoresError]_vars

\* a transaction has failed on a not-acknowledged address, a later one has
\* succeeded, and the code of the failure is still returned
C11_Witness ==
    /\ ~Busy
    /\ self.operation_result # NULL
    /\ Slot = "i2c_operation_ok"
    /\ i2c_get_error_code = TW_MT_SLA_NACK

\* C13: in state send_sla_w, when the address with the write bit was
\* acknowledged, the byte the handler transmits is the register index of the
\* request (data_register) itself, and the state becomes write_register.
C13_RegisterIndexTransmitted ==
    [][(TWI_vect /\ self.state = "send_sla_w" /\ TWSR = TW_MT_SLA_ACK)
          => /\ Last(bus') = i2c_write_byte(self.data_register)
             /\ TWDR' = self.data_register
             /\ self'.state = "write_register"]_vars

\* the address byte transmitted after START in the current transaction
AddressByteAfterStart == bus[2].TWDR

\* C14: the address byte transmitted after START has bit 0 = 0, the address
\* byte transmitted after the repeated START has bit 0 = 1, and both carry
\* the same seven address bits, those of the slave_address of the request.
C14_DirectionBitFramed ==
    [][/\ (TWI_vect /\ self.state = "start" /\ TWSR = TW_START)
             => /\ TWDR' % 2 = 0
                /\ TWDR' \div 2 = self.slave_address \div 2
       /\ (TWI_vect /\ self.state = "repeated_start" /\ TWSR = TW_REP_START)
             => /\ TWDR' % 2 = 1
                /\ TWDR' \div 2 = self.slave_address \div 2
                /\ TWDR' \div 2 = AddressByteAfterStart \div 2]_vars

NonIdle == i2c_state_t \ {"idle"}

\* the value the handler stores in the given state on a status that no state
\* expects
ReportedError(state) ==
    Handler([self EXCEPT !.state = state], TW_BUS_ERROR, i2c_read_data, ram).res

Edges(operation) ==
    {<<"idle", "start">>, <<"start", "send_sla_w">>,
     <<"send_sla_w", "write_register">>}
      \cup {<<st, "idle">> : st \in NonIdle}
      \cup (IF operation = "write_register_op"
              THEN {<<"write_register", "write_data">>}
              ELSE {<<"write_register", "repeated_start">>,
                    <<"repeated_start", "read_data">>})

\* the states a handler run with the expected status may leave the state in
Successors(operation, state) ==
    CASE state = "start" -> {"send_sla_w"}
      [] state = "send_sla_w" -> {"write_register"}
      [] state = "write_register" ->
           IF operation = "write_register_op" THEN {"write_data"}
                                              ELSE {"repeated_start"}
      [] state = "write_data" -> {"write_data", "idle"}
      [] state = "repeated_start" -> {"read_data"}
      [] state = "read_data" -> {"read_data", "idle"}

\* C16: the state changes only along the edges of the machine: a write goes
\* start, send_sla_w, write_register, write_data, idle and is never in
\* repeated_start or read_data; a read goes start, send_sla_w, write_register,
\* repeated_start, read_data, idle and is never in write_data; a handler run
\* with the expected status takes the next edge of that path, and the only
\* other state change out of a state that is not idle is to idle.
C16_StateEdges ==
    [][/\ (self'.state # self.state)
             => <<self.state, self'.state>> \in Edges(self'.operation)
       /\ (self.operation = "write_register_op")
             => self.state \notin {"repeated_start", "read_data"}
       /\ (self.operation = "read_register_op") => (self.state # "write_data")
       /\ (TWI_vect /\ Busy /\ TWSR \in Expected(self.state))
             => self'.state \in Successors(self.operation, self.state)]_vars

\* a read of MaxLen bytes has gone its whole path and is back in idle
C16_Witness ==
    /\ Completed("read_register_op")
    /\ self.buffer_length = MaxLen
    /\ Frame(bus) = <<"i2c_send_start", "i2c_write_byte", "i2c_write_byte",
                      "i2c_restart", "i2c_write_byte", "i2c_send_stop">>

\* C17: a handler run taken while the state is idle changes no state: the
\* state stays idle, and the context (handled_bytes and the stored status code
\* with it), the result slots and the buffer memory are unchanged.
C17_IdleInterruptChangesNothing ==
    [][(TWI_vect /\ ~Busy)
          => /\ self'.state = "idle"
             /\ self' = self
             /\ result' = result
             /\ ram' = ram]_vars

\* the handler has run in state idle: a STOP was issued in a run that stored
\* no result, which no run in another state does
C17_Witness ==
    /\ ~Busy
    /\ writes = 0
    /\ bus # <<>>
    /\ Last(bus) = i2c_send_stop

\* C18: every access self.buffer[i] of a handler run has 0 <= i and
\* i < buffer_length.
C18_BufferIndexInRange ==
    [][TWI_vect
          => \A i \in BufferIndexes(self, TWSR) :
                 0 <= i /\ i < self.buffer_length]_vars

\* C19: the buffer memory changes in no step of a write transaction, and in
\* a read transaction only in a handler run in state read_data; no other step
\* of the program changes it.
C19_BufferWrittenOnlyInReadData ==
    [][(ram' # ram)
          => /\ TWI_vect
             /\ self.operation = "read_register_op"
             /\ self.state = "read_data"]_vars

\* a write of MaxLen bytes has completed; the bytes sent are those of the
\* buffer as it still is
C19_Witness ==
    /\ Completed("write_register_op")
    /\ self.buffer_length = MaxLen
    /\ \A i \in 0 .. (MaxLen - 1) : WrittenBytes(bus)[i + 3] = ram[self.buffer + i]

\* the statements that store to a field of the context
ContextStores ==
    {"slave_address", "data_register", "buffer", "buffer_length",
     "operation", "operation_result", "state", "handled_bytes"}

\* this step is a statement of a request function that stores to the context
ForegroundStores == pc' # pc /\ pc.at \in ContextStores

\* this step changes a field of the context (buffer is NULL or a number)
ContextChanged ==
    \/ \E f \in (DOMAIN self) \ {"buffer"} : self'[f] # self[f]
    \/ ToString(self'.buffer) # ToString(self.buffer)

\* the foreground is inside the branch of an accepted request and has not
\* yet completed i2c_send_start
InBranch == pc # AtMain /\ pc.at # "return"

\* C12: with the handler taken between any two foreground statements, the
\* foreground stores to the context only while the state is idle; while the
\* state is not idle only the handler changes the context; and the handler
\* never runs while the foreground is among the stores of an accepted request.
C12_ForegroundWritesOnlyInIdle ==
    [][/\ ForegroundStores => (self.state = "idle")
       /\ (ContextChanged /\ Busy) => TWI_vect
       /\ TWI_vect => ~InBranch]_vars

\* C12 as it holds: the foreground stores to the context only in the branch
\* of an accepted request, before its i2c_send_start, while TWIE is clear and
\* the handler cannot be taken; all its stores are made in state idle but the
\* last, handled_bytes = 0, which follows state = start; every other change of
\* the context is made by the handler, which never runs while the foreground
\* is in that branch.
C12_ForegroundWritesBeforeStart ==
    [][/\ ForegroundStores
             => \/ self.state = "idle"
                \/ pc.at = "handled_bytes" /\ self.state = "start"
       /\ InBranch => ("TWIE" \notin TWCR)
       /\ TWI_vect => ~InBranch
       /\ ContextChanged => (TWI_vect \/ (ForegroundStores /\ InBranch))
       /\ (ContextChanged /\ Busy /\ ~InBranch) => TWI_vect]_vars

\* the foreground has stored state = start and is about to clear the count
\* that the last transaction left
C12_Witness ==
    /\ pc.fn \in RequestFns
    /\ pc.at = "handled_bytes"
    /\ self.state = "start"
    /\ self.handled_bytes > 0

====
